---- MODULE Spec2Model ----
(***************************************************************************)
(* PoseCoreEngine: the push-up repetition counter (scripts/counter.py) and *)
(* the repetition quality scorer (scripts/scorer.py) as state machines.    *)
(*                                                                         *)
(* Angles are whole degrees.  An optional argument (None in the source) is *)
(* a sequence of length 0, a supplied one a sequence of length 1.          *)
(***************************************************************************)
EXTENDS Integers, Sequences, FiniteSets, TLC

VARIABLES
    counter,    \* the PushupCounter instance: its ten attributes
    old,        \* the instance as it was when the last call was entered
    op,         \* the PushupCounter method called last ("init" after construction)
    ret,        \* what that call returned (update's rep_completed; FALSE for None)
    hist,       \* the update calls since construction or the last reset():
                \* for each, how the code classified the frame and what it returned
    frames,     \* RepScorer.frames, the frame buffer
    sold,       \* the frame buffer as it was when the last call was entered
    sop,        \* the RepScorer method called last ("init" after construction)
    sarg,       \* the arguments of that call (<<>> when it takes none)
    sret,       \* what that call returned (NoReturn for None)
    filt,       \* a OneEuroFilter instance (one axis)
    fold,       \* the instance as it was when the last call was entered
    fop,        \* the OneEuroFilter method called last ("init" after construction)
    farg,       \* the arguments of that call (<<>> when it takes none)
    fret,       \* what that call returned (NoReturn for None)
    ncalls,     \* the __call__ calls made on the instance so far
    pose,       \* the five points handed to is_in_pushup_position
    pargs,      \* its three thresholds
    pres,       \* what it returned for them (NoReturn before the call)
    filters,    \* main: the OneEuro2D instance of each keypoint
    in_rep,     \* main: a repetition is being recorded
    fps_hist,   \* main: the frame rates of the last frames
    t_now,      \* main: the timestamp of the last frame, in milliseconds
    lenient,    \* main: args.lenient_position
    dframe      \* main: what the last frame was and what the loop did with it

varsCounter == <<counter, old, op, ret, hist>>
varsScorer == <<frames, sold, sop, sarg, sret>>
varsFilter == <<filt, fold, fop, farg, fret, ncalls>>
vars == <<counter, old, op, ret, hist, frames, sold, sop, sarg, sret,
          filt, fold, fop, farg, fret, ncalls, pose, pargs, pres,
          filters, in_rep, fps_hist, t_now, lenient, dframe>>
varsDriver == <<filters, in_rep, fps_hist, t_now, lenient, dframe>>
varsPosition == <<pose, pargs, pres>>

(***************************************************************************)
(* Bounds of the model.                                                    *)
(***************************************************************************)
\* update calls explored between two resets of the counter
MaxUpdates == 6
\* frames explored in the scorer's buffer
MaxFrames == 3
\* __call__ calls explored on one filter axis
MaxCalls == 4
\* frames explored in the driver loop
MaxDriverFrames == 4

None == <<>>
Some(v) == <<v>>

Abs(x) == IF x < 0 THEN -x ELSE x
Max(a, b) == IF a >= b THEN a ELSE b
Min(a, b) == IF a <= b THEN a ELSE b

(***************************************************************************)
(* PushupCounter                                                           *)
(***************************************************************************)

\* Threshold configurations a caller constructs the counter with: the
\* defaults of __init__, and one whose down range [75, 105] overlaps the
\* up range (> 100).
ThresholdConfigs ==
    { [down_angle |-> 90, angle_tolerance |-> 15, up_th |-> 140, parallel_th |-> 20],
      [down_angle |-> 90, angle_tolerance |-> 15, up_th |-> 100, parallel_th |-> 20] }

\* min_down_frames / min_up_frames a caller constructs the counter with
\* (3 is the default of __init__, 1 the driver's).
MinFrameChoices == {1, 2, 3}

\* Inputs of update: elbow angles on and next to every threshold above, and
\* the alignment difference omitted, on, and next to parallel_th.
ElbowAngles == {74, 75, 100, 101, 105, 106, 140, 141}
AngleDiffs == {None, Some(20), Some(21)}

PushupCounter_init(th, mdf, muf) ==
    [ state |-> "up", reps |-> 0, down_frames |-> 0, up_frames |-> 0,
      down_angle |-> th.down_angle, angle_tolerance |-> th.angle_tolerance,
      up_th |-> th.up_th, parallel_th |-> th.parallel_th,
      min_down_frames |-> mdf, min_up_frames |-> muf ]

in_down_angle_range(self, elbow_angle) ==
    Abs(elbow_angle - self.down_angle) <= self.angle_tolerance

is_parallel_Strict(self, diff) == diff < self.parallel_th

is_parallel(self, diff) == diff <= self.parallel_th

in_down_position(self, elbow_angle, arm_back_angle_diff) ==
    IF arm_back_angle_diff # None
    THEN in_down_angle_range(self, elbow_angle)
         /\ is_parallel(self, arm_back_angle_diff[1])
    ELSE in_down_angle_range(self, elbow_angle)

above_up_th(self, elbow_angle) == elbow_angle > self.up_th

\* update(), the branch of a frame in the down position
update_RepOnDown(self) ==
    LET df == self.down_frames + 1
        to_down == self.state = "up" /\ df >= self.min_down_frames IN
    [ self |-> [self EXCEPT !.down_frames = df, !.up_frames = 0,
                            !.state = IF to_down THEN "down" ELSE @,
                            !.reps = IF to_down THEN @ + 1 ELSE @],
      rep_completed |-> to_down ]

update_EarlyDown(self) ==
    LET df == self.down_frames + 1 IN
    [ self |-> [self EXCEPT !.down_frames = df, !.up_frames = 0,
                            !.state = IF self.state = "up" /\ df >= self.min_down_frames - 1
                                      THEN "down" ELSE @],
      rep_completed |-> FALSE ]

update_down(self) ==
    LET df == self.down_frames + 1 IN
    [ self |-> [self EXCEPT !.down_frames = df, !.up_frames = 0,
                            !.state = IF self.state = "up" /\ df >= self.min_down_frames
                                      THEN "down" ELSE @],
      rep_completed |-> FALSE ]

\* update(), the branch of a frame in the up position
update_LateUp(self) ==
    LET uf == self.up_frames + 1
        done == self.state = "down" /\ uf > self.min_up_frames IN
    [ self |-> [self EXCEPT !.up_frames = uf, !.down_frames = 0,
                            !.state = IF done THEN "up" ELSE @,
                            !.reps = IF done THEN @ + 1 ELSE @],
      rep_completed |-> done ]

update_UpKeepsDown(self) ==
    LET uf == self.up_frames + 1
        done == self.state = "down" /\ uf >= self.min_up_frames IN
    [ self |-> [self EXCEPT !.up_frames = uf,
                            !.state = IF done THEN "up" ELSE @,
                            !.reps = IF done THEN @ + 1 ELSE @],
      rep_completed |-> done ]

update_up(self) ==
    LET uf == self.up_frames + 1
        done == self.state = "down" /\ uf >= self.min_up_frames IN
    [ self |-> [self EXCEPT !.up_frames = uf, !.down_frames = 0,
                            !.state = IF done THEN "up" ELSE @,
                            !.reps = IF done THEN @ + 1 ELSE @],
      rep_completed |-> done ]

\* update(), the branch of a frame in the transition zone
update_TransitionResets(self) ==
    [ self |-> [self EXCEPT !.down_frames = 0, !.up_frames = 0],
      rep_completed |-> FALSE ]

update_transition(self) ==
    [ self |-> [self EXCEPT !.down_frames = Max(0, @ - 1),
                            !.up_frames = Max(0, @ - 1)],
      rep_completed |-> FALSE ]

update_UpFirst(self, elbow_angle, arm_back_angle_diff) ==
    IF above_up_th(self, elbow_angle)
    THEN update_up(self)
    ELSE IF in_down_position(self, elbow_angle, arm_back_angle_diff)
    THEN update_down(self)
    ELSE update_transition(self)

\* update(): the successor instance and the returned rep_completed
PushupCounter_update(self, elbow_angle, arm_back_angle_diff) ==
    IF in_down_position(self, elbow_angle, arm_back_angle_diff)
    THEN update_down(self)
    ELSE IF above_up_th(self, elbow_angle)
    THEN update_up(self)
    ELSE update_transition(self)

reset_KeepsUpFrames(self) ==
    [self EXCEPT !.state = "up", !.reps = 0, !.down_frames = 0]

reset_KeepsReps(self) ==
    [self EXCEPT !.state = "up", !.down_frames = 0, !.up_frames = 0]

PushupCounter_reset(self) ==
    [self EXCEPT !.state = "up", !.reps = 0, !.down_frames = 0, !.up_frames = 0]

\* How update classified a frame: the two tests of its if / elif.
FrameKind(self, elbow_angle, arm_back_angle_diff) ==
    [ down |-> in_down_position(self, elbow_angle, arm_back_angle_diff),
      above |-> above_up_th(self, elbow_angle) ]

InitCounter ==
    /\ \E th \in ThresholdConfigs, mdf \in MinFrameChoices, muf \in MinFrameChoices :
          counter = PushupCounter_init(th, mdf, muf)
    /\ old = counter
    /\ op = "init"
    /\ ret = FALSE
    /\ hist = <<>>

Update ==
    /\ Len(hist) < MaxUpdates
    /\ \E elbow_angle \in ElbowAngles, arm_back_angle_diff \in AngleDiffs :
          LET r == PushupCounter_update(counter, elbow_angle, arm_back_angle_diff)
              k == FrameKind(counter, elbow_angle, arm_back_angle_diff) IN
          /\ counter' = r.self
          /\ old' = counter
          /\ ret' = r.rep_completed
          /\ hist' = Append(hist, [down |-> k.down, above |-> k.above,
                                   ret |-> r.rep_completed])
    /\ op' = "update"
    /\ UNCHANGED <<varsScorer, varsFilter, varsPosition, varsDriver>>

Reset ==
    /\ counter' = PushupCounter_reset(counter)
    /\ old' = counter
    /\ op' = "reset"
    /\ ret' = FALSE
    /\ hist' = <<>>
    /\ UNCHANGED <<varsScorer, varsFilter, varsPosition, varsDriver>>

(***************************************************************************)
(* RepScorer                                                               *)
(*                                                                         *)
(* Units.  Elbow angles and line_dev are whole degrees; shoulder_y and     *)
(* hip_y are hundredths of the normalized coordinate; fps is whole frames  *)
(* per second and the two targets are tenths of a second.  A score is an   *)
(* integer number of 1/ScoreUnit points; the source's float arithmetic is  *)
(* carried out exactly and truncated to that resolution.                   *)
(***************************************************************************)
ScoreUnit == 100
Points(n) == n * ScoreUnit

NoReturn == [kind |-> "none"]

\* Frame records a caller passes to add_frame.
FrameSamples ==
    { [elbowL |-> 165, elbowR |-> 165, shoulder_y |-> 58, hip_y |-> 50, line_dev |-> 0],
      [elbowL |-> 90,  elbowR |-> 90,  shoulder_y |-> 58, hip_y |-> 50, line_dev |-> 0],
      [elbowL |-> 60,  elbowR |-> 75,  shoulder_y |-> 50, hip_y |-> 50, line_dev |-> 20],
      [elbowL |-> 70,  elbowR |-> 70,  shoulder_y |-> 45, hip_y |-> 50, line_dev |-> 10],
      [elbowL |-> 100, elbowR |-> 120, shoulder_y |-> 53, hip_y |-> 48, line_dev |-> 50],
      [elbowL |-> 110, elbowR |-> 112, shoulder_y |-> 58, hip_y |-> 53, line_dev |-> 41],
      [elbowL |-> 125, elbowR |-> 140, shoulder_y |-> 54, hip_y |-> 51, line_dev |-> 5],
      [elbowL |-> 180, elbowR |-> 0,   shoulder_y |-> 0,  hip_y |-> 100, line_dev |-> 180] }

\* Arguments a caller passes to finalize: the defaults (2.0 s, 1.0 s, 30.0
\* fps), and targets of one frame each (0.1 s at 10 fps).
FinalizeArgs ==
    { [target_down_s |-> 20, target_up_s |-> 10, fps |-> 30],
      [target_down_s |-> 1, target_up_s |-> 1, fps |-> 10],
      [target_down_s |-> 5, target_up_s |-> 3, fps |-> 4] }

RECURSIVE SeqSum(_)
SeqSum(q) == IF q = <<>> THEN 0 ELSE Head(q) + SeqSum(Tail(q))

RECURSIVE SeqMin(_)
SeqMin(q) == IF Len(q) = 1 THEN q[1] ELSE Min(Head(q), SeqMin(Tail(q)))

RECURSIVE SeqMax(_)
SeqMax(q) == IF Len(q) = 1 THEN q[1] ELSE Max(Head(q), SeqMax(Tail(q)))

\* ascending insertion of v into the ascending sequence q
RECURSIVE Insert(_, _)
Insert(v, q) ==
    IF q = <<>> THEN <<v>>
    ELSE IF v <= Head(q) THEN <<v>> \o q
    ELSE <<Head(q)>> \o Insert(v, Tail(q))

RECURSIVE Sorted(_)
Sorted(q) == IF q = <<>> THEN <<>> ELSE Insert(Head(q), Sorted(Tail(q)))

\* the largest r in lo..hi with r * r <= x (lo * lo <= x assumed)
RECURSIVE SqrtBetween(_, _, _)
SqrtBetween(x, lo, hi) ==
    IF lo >= hi THEN lo
    ELSE LET mid == (lo + hi + 1) \div 2 IN
         IF mid * mid <= x THEN SqrtBetween(x, mid, hi)
         ELSE SqrtBetween(x, lo, mid - 1)

\* floor of the square root of x, 0 <= x < 2^31
ISqrt(x) == SqrtBetween(x, 0, Min(x, 46340))

\* n / d rounded to the nearest integer, ties to the even one (round())
RoundHalfEven(n, d) ==
    LET q == n \div d
        r == n % d IN
    IF 2 * r < d THEN q
    ELSE IF 2 * r > d THEN q + 1
    ELSE IF q % 2 = 0 THEN q ELSE q + 1

\* np.interp(x, [xp0, xp1], [fp0, fp1]) as numpy evaluates it for two
\* points: x > xp[-1] gives fp[-1]; else x < xp[0] gives fp[0]; else the
\* segment is searched (x >= xp[1] gives fp[1], x = xp[0] gives fp[0]) and
\* interpolated.  numpy never checks that xp increases.  fp in points, the
\* result in score units.
np_interp(x, xp0, xp1, fp0, fp1) ==
    IF x > xp1 THEN Points(fp1)
    ELSE IF x < xp0 THEN Points(fp0)
    ELSE IF x >= xp1 THEN Points(fp1)
    ELSE IF x = xp0 THEN Points(fp0)
    ELSE Points(fp0) + (Points(fp1 - fp0) * (x - xp0)) \div (xp1 - xp0)

np_clip(a, a_min, a_max) == Min(Max(a, a_min), a_max)

\* the time series finalize extracts from the buffer
Series(fr, key) == [i \in 1..Len(fr) |-> fr[i][key]]

\* np.argmin(mean_elbow), 0-based: the first frame of least elbowL + elbowR
min_idx(fr) ==
    LET sum == [i \in 1..Len(fr) |-> fr[i].elbowL + fr[i].elbowR]
        least == SeqMin(sum) IN
    (CHOOSE i \in 1..Len(fr) : sum[i] = least /\ \A j \in 1..(i - 1) : sum[j] # least) - 1

\* np.percentile(line_dev, 90), in tenths of a degree
percentile90(q) ==
    LET a == Sorted(q)
        at == 9 * (Len(q) - 1)
        lo == at \div 10
        g == at % 10 IN
    10 * a[lo + 1] + (IF g = 0 THEN 0 ELSE g * (a[lo + 2] - a[lo + 1]))

\* np.std(hip_y) = sqrt(V) / n hundredths, in 1/100000 of the normalized
\* coordinate (from 0.03 on, where the score saturates, to the nearest
\* 1/10000 below)
np_std(q) ==
    LET n == Len(q)
        sq == [i \in 1..n |-> q[i] * q[i]]
        V == n * SeqSum(sq) - SeqSum(q) * SeqSum(q) IN
    IF V >= 9 * n * n
    THEN 10 * ISqrt((10000 * V) \div (n * n))
    ELSE ISqrt((1000000 * V) \div (n * n))

rom_bottom_score(fr) ==
    np_interp(Min(SeqMin(Series(fr, "elbowL")), SeqMin(Series(fr, "elbowR"))),
              110, 70, 0, 100)

rom_top_score(fr) ==
    np_interp(Max(SeqMax(Series(fr, "elbowL")), SeqMax(Series(fr, "elbowR"))),
              120, 160, 0, 100)

ROM(fr) == (6 * rom_bottom_score(fr) + 4 * rom_top_score(fr)) \div 10

depth_score(fr) ==
    LET depth_series == [i \in 1..Len(fr) |-> fr[i].shoulder_y - fr[i].hip_y] IN
    np_interp(SeqMax(depth_series), 0, 8, 0, 100)

bodyline_score(fr) ==
    np_interp(1000 - percentile90(Series(fr, "line_dev")), 600, 1000, 0, 100)

\* frames of the descent and of the ascent
down_frames_of(fr) == Max(min_idx(fr), 1)
up_frames_of(fr) == Max(Len(fr) - 1 - min_idx(fr), 1)

\* 100 - min(abs(n / fps - target) / max(1e-6, target), 1.0) * 100
tempo_part(n, target, fps) ==
    Points(100) - Min((Points(100) * Abs(10 * n - target * fps)) \div (target * fps),
                      Points(100))

tempo_score(fr, args) ==
    (6 * tempo_part(down_frames_of(fr), args.target_down_s, args.fps)
     + 4 * tempo_part(up_frames_of(fr), args.target_up_s, args.fps)) \div 10

stability_score(fr) ==
    Points(100) - np_interp(np_std(Series(fr, "hip_y")), 0, 3000, 0, 100)

\* (sym_bottom + sym_top) / 2.0 is taken in half degrees
symmetry_score(fr) ==
    LET b == fr[min_idx(fr) + 1]
        t == fr[Len(fr)]
        sym_bottom == Abs(b.elbowL - b.elbowR)
        sym_top == Abs(t.elbowL - t.elbowR) IN
    Points(100) - np_interp(sym_bottom + sym_top, 0, 30, 0, 100)

ScoreKeys == {"ROM", "Depth", "BodyLine", "Tempo", "Stability", "Symmetry"}

breakdown_of(fr, args) ==
    [ ROM |-> np_clip(ROM(fr), 0, Points(100)),
      Depth |-> np_clip(depth_score(fr), 0, Points(100)),
      BodyLine |-> np_clip(bodyline_score(fr), 0, Points(100)),
      Tempo |-> np_clip(tempo_score(fr, args), 0, Points(100)),
      Stability |-> np_clip(stability_score(fr), 0, Points(100)),
      Symmetry |-> np_clip(symmetry_score(fr), 0, Points(100)),
      down_seconds |-> RoundHalfEven(100 * down_frames_of(fr), args.fps),
      up_seconds |-> RoundHalfEven(100 * up_frames_of(fr), args.fps) ]

final_MisweightedROM(breakdown) ==
    (53 * breakdown.ROM + 15 * breakdown.Depth + 20 * breakdown.BodyLine
     + 10 * breakdown.Tempo + 10 * breakdown.Stability + 10 * breakdown.Symmetry)
    \div 100

\* the weighted final score, before rounding
final(breakdown) ==
    (35 * breakdown.ROM + 15 * breakdown.Depth + 20 * breakdown.BodyLine
     + 10 * breakdown.Tempo + 10 * breakdown.Stability + 10 * breakdown.Symmetry)
    \div 100

\* round(final, 1), in score units
round1(v) == (ScoreUnit \div 10) * RoundHalfEven(v, ScoreUnit \div 10)

EmptyResult == [score |-> 0, breakdown |-> <<>>, notes |-> <<"No frames captured">>]

scored(fr, args) ==
    LET breakdown == breakdown_of(fr, args) IN
    [score |-> round1(final(breakdown)), breakdown |-> breakdown]

\* finalize without its guard: eL.min() of an empty array raises ValueError
finalize_Unguarded(fr, args) ==
    [ frames |-> fr,
      result |-> IF fr = <<>> THEN [error |-> "ValueError"] ELSE scored(fr, args) ]

finalize_Consumes(fr, args) ==
    [ frames |-> <<>>,
      result |-> IF fr = <<>> THEN EmptyResult ELSE scored(fr, args) ]

\* finalize(): the buffer it leaves and the dictionary it returns
RepScorer_finalize(fr, args) ==
    [ frames |-> fr,
      result |-> IF fr = <<>> THEN EmptyResult ELSE scored(fr, args) ]

RepScorer_reset(fr) == <<>>

RepScorer_add_frame(fr, metrics) == Append(fr, metrics)

InitScorer ==
    /\ frames = <<>>
    /\ sold = <<>>
    /\ sop = "init"
    /\ sarg = <<>>
    /\ sret = NoReturn

ScorerReset ==
    /\ frames' = RepScorer_reset(frames)
    /\ sold' = frames
    /\ sop' = "reset"
    /\ sarg' = <<>>
    /\ sret' = NoReturn
    /\ UNCHANGED <<varsCounter, varsFilter, varsPosition, varsDriver>>

AddFrame ==
    /\ Len(frames) < MaxFrames
    /\ \E metrics \in FrameSamples :
          /\ frames' = RepScorer_add_frame(frames, metrics)
          /\ sarg' = metrics
    /\ sold' = frames
    /\ sop' = "add_frame"
    /\ sret' = NoReturn
    /\ UNCHANGED <<varsCounter, varsFilter, varsPosition, varsDriver>>

Finalize ==
    /\ \E args \in FinalizeArgs :
          LET r == RepScorer_finalize(frames, args) IN
          /\ frames' = r.frames
          /\ sret' = r.result
          /\ sarg' = args
    /\ sold' = frames
    /\ sop' = "finalize"
    /\ UNCHANGED <<varsCounter, varsFilter, varsPosition, varsDriver>>

(***************************************************************************)
(* OneEuroFilter                                                           *)
(*                                                                         *)
(* Units.  A sample x is in thousandths of the normalized coordinate, a    *)
(* timestamp in milliseconds, a derivative in hundredths of a coordinate   *)
(* per second; min_cutoff and d_cutoff are in millihertz, beta in          *)
(* thousandths, freq in hertz.  A smoothing factor alpha = r / (r + 1),    *)
(* r = 2 pi cutoff dt, is carried as r in millionths (pi = 355 / 113).     *)
(***************************************************************************)
\* Configurations a caller constructs a filter with: the defaults of
\* __init__ (beta 0.0), the driver's defaults (main.py), and some with a
\* parameter that is 0.
FilterConfigs ==
    { [freq |-> 120, min_cutoff |-> 1000, beta |-> 0,   d_cutoff |-> 1000],
      [freq |-> 60,  min_cutoff |-> 1000, beta |-> 100, d_cutoff |-> 1000],
      [freq |-> 0,   min_cutoff |-> 1000, beta |-> 100, d_cutoff |-> 1000],
      [freq |-> 60,  min_cutoff |-> 0,    beta |-> 0,   d_cutoff |-> 1000],
      [freq |-> 60,  min_cutoff |-> 1000, beta |-> 100, d_cutoff |-> 0] }

\* Samples fed to an axis, and the time between two calls (0: a duplicate
\* timestamp).
RawValues == {500, 520, 600}
TimeSteps == {0, 33}

OneEuroFilter_init(cfg) ==
    [ freq |-> cfg.freq, min_cutoff |-> cfg.min_cutoff, beta |-> cfg.beta,
      d_cutoff |-> cfg.d_cutoff,
      x_prev |-> None, dx_prev |-> None, t_prev |-> None ]

\* 2 pi cutoff dt in millionths, dt in microseconds
alpha_r(cutoff, dt) == (710 * ((cutoff * dt) \div 1000)) \div 113

\* _exp_smooth(a, x, x_prev) with a = r / (r + 1)
exp_smooth(r, x, x_prev) == (r * x + 1000000 * x_prev) \div (r + 1000000)

OneEuroFilter_reset(self) ==
    [self EXCEPT !.x_prev = None, !.dx_prev = None, !.t_prev = None]

\* the first call of an axis
call_first(self, x, now) ==
    [ self |-> [self EXCEPT !.t_prev = Some(now), !.x_prev = Some(x),
                            !.dx_prev = Some(0)],
      out |-> [value |-> x] ]

ZeroDivision(self) == [self |-> self, out |-> [error |-> "ZeroDivisionError"]]

\* a later call: _alpha divides by its cutoff
call_next(self, x, now) ==
    LET dt == Max(1, 1000 * (now - self.t_prev[1]))
        dx == ((x - self.x_prev[1]) * 100000) \div dt IN
    IF self.d_cutoff = 0 THEN ZeroDivision(self)
    ELSE
    LET dx_hat == exp_smooth(alpha_r(self.d_cutoff, dt), dx, self.dx_prev[1])
        cutoff == self.min_cutoff + (self.beta * Abs(dx_hat)) \div 100 IN
    IF cutoff = 0 THEN ZeroDivision(self)
    ELSE
    LET x_hat == exp_smooth(alpha_r(cutoff, dt), x, self.x_prev[1]) IN
    [ self |-> [self EXCEPT !.x_prev = Some(x_hat), !.dx_prev = Some(dx_hat),
                            !.t_prev = Some(now)],
      out |-> [value |-> x_hat] ]

call_AlwaysSmooths(self, x, now) ==
    IF self.t_prev = None
    THEN [ self |-> [self EXCEPT !.t_prev = Some(now), !.x_prev = Some(x),
                                 !.dx_prev = Some(0)],
           out |-> [value |-> exp_smooth(alpha_r(self.min_cutoff, 1000000 \div 120),
                                         x, 0)] ]
    ELSE call_next(self, x, now)

\* __call__(x, t): the successor instance and what is returned or raised
OneEuroFilter_call(self, x, now) ==
    IF self.t_prev = None
    THEN call_first(self, x, now)
    ELSE call_next(self, x, now)

\* the timestamp of the last call made, 0 before any call
LastTime == IF fop = "call" /\ farg # <<>> THEN farg.t
            ELSE IF filt.t_prev # None THEN filt.t_prev[1]
            ELSE IF fold.t_prev # None THEN fold.t_prev[1] ELSE 0

InitFilterWith(cfgs) ==
    /\ \E cfg \in cfgs : filt = OneEuroFilter_init(cfg)
    /\ fold = filt
    /\ fop = "init"
    /\ farg = <<>>
    /\ fret = NoReturn
    /\ ncalls = 0

FilterCall ==
    /\ ncalls < MaxCalls
    /\ \E x \in RawValues, step \in TimeSteps :
          LET now == LastTime + step
              r == OneEuroFilter_call(filt, x, now) IN
          /\ filt' = r.self
          /\ fret' = r.out
          /\ farg' = [x |-> x, t |-> now]
    /\ fold' = filt
    /\ fop' = "call"
    /\ ncalls' = ncalls + 1
    /\ UNCHANGED <<varsCounter, varsScorer, varsPosition, varsDriver>>

FilterReset ==
    /\ filt' = OneEuroFilter_reset(filt)
    /\ fold' = filt
    /\ fop' = "reset"
    /\ farg' = <<>>
    /\ fret' = NoReturn
    /\ UNCHANGED <<ncalls, varsCounter, varsScorer, varsPosition, varsDriver>>

(***************************************************************************)
(* Geometry: angle and is_in_pushup_position                               *)
(*                                                                         *)
(* Points are <<x, y>> on an integer grid (image coordinates, y downward); *)
(* angles are in thousandths of a degree; face_down_threshold is in        *)
(* tenths.                                                                 *)
(***************************************************************************)
\* largest coordinate difference of two points of a pose
MaxOffset == 4

\* degrees(arctan2(y, x)) in thousandths of a degree, row y + MaxOffset + 1,
\* column x + MaxOffset + 1
ArctanTable ==
    <<
       <<-135000, -126870, -116565, -104036,  -90000,  -75964,  -63435,  -53130,  -45000>>,
       <<-143130, -135000, -123690, -108435,  -90000,  -71565,  -56310,  -45000,  -36870>>,
       <<-153435, -146310, -135000, -116565,  -90000,  -63435,  -45000,  -33690,  -26565>>,
       <<-165964, -161565, -153435, -135000,  -90000,  -45000,  -26565,  -18435,  -14036>>,
       << 180000,  180000,  180000,  180000,       0,       0,       0,       0,       0>>,
       << 165964,  161565,  153435,  135000,   90000,   45000,   26565,   18435,   14036>>,
       << 153435,  146310,  135000,  116565,   90000,   63435,   45000,   33690,   26565>>,
       << 143130,  135000,  123690,  108435,   90000,   71565,   56310,   45000,   36870>>,
       << 135000,  126870,  116565,  104036,   90000,   75964,   63435,   53130,   45000>>
    >>

arctan2(y, x) == ArctanTable[y + MaxOffset + 1][x + MaxOffset + 1]

Minus(p, q) == <<p[1] - q[1], p[2] - q[2]>>

\* angle(a, b, c): the angle at b, 0 when an arm has no length, else the
\* arccos of the normalized dot product, i.e. the unsigned difference of
\* the directions of the two arms folded into 0..180
angle(a, b, c) ==
    LET ba == Minus(a, b)
        bc == Minus(c, b)
        d  == Abs(arctan2(ba[2], ba[1]) - arctan2(bc[2], bc[1])) IN
    IF ba = <<0, 0>> \/ bc = <<0, 0>> THEN 0
    ELSE IF d > 180000 THEN 360000 - d ELSE d

\* int(a) of an angle a >= 0, in degrees
int(a) == a \div 1000

knee_angle(p) == angle(p.hip, p.knee, p.ankle)

torso_angle_from_horizontal(p) ==
    LET torso_vec == Minus(p.hip, p.shoulder) IN
    Abs(arctan2(torso_vec[2], torso_vec[1]))

body_height(p) == Abs(p.shoulder[2] - p.ankle[2])

face_down_dist(p) == p.nose[2] - p.shoulder[2]

\* face_ratio < face_down_threshold, for body_height > 0
face_ratio_low(p, face_down_threshold) ==
    10 * face_down_dist(p) < face_down_threshold * body_height(p)

LegsBent(a, limit) ==
    [valid |-> FALSE,
     reason |-> [text |-> "Legs bent", value |-> int(a), limit |-> limit]]

NotHorizontal(a, limit) ==
    [valid |-> FALSE,
     reason |-> [text |-> "Not horizontal", value |-> int(a), limit |-> limit]]

FaceNotDown == [valid |-> FALSE, reason |-> [text |-> "Face not pointing down"]]

ValidPosition == [valid |-> TRUE, reason |-> [text |-> "Valid push-up position"]]

position_TiltFirst(p, min_plank_angle, max_body_tilt, face_down_threshold) ==
    IF torso_angle_from_horizontal(p) > 1000 * max_body_tilt
    THEN NotHorizontal(torso_angle_from_horizontal(p), max_body_tilt)
    ELSE IF knee_angle(p) < 1000 * min_plank_angle
    THEN LegsBent(knee_angle(p), min_plank_angle)
    ELSE IF body_height(p) > 0 /\ face_ratio_low(p, face_down_threshold)
    THEN FaceNotDown
    ELSE ValidPosition

is_in_pushup_position(p, min_plank_angle, max_body_tilt, face_down_threshold) ==
    IF knee_angle(p) < 1000 * min_plank_angle
    THEN LegsBent(knee_angle(p), min_plank_angle)
    ELSE IF torso_angle_from_horizontal(p) > 1000 * max_body_tilt
    THEN NotHorizontal(torso_angle_from_horizontal(p), max_body_tilt)
    ELSE IF body_height(p) > 0 /\ face_ratio_low(p, face_down_threshold)
    THEN FaceNotDown
    ELSE ValidPosition

\* Poses tried: the shoulder midpoint is fixed, the other four points vary.
Poses ==
    [ shoulder : {<<0, 1>>},
      hip      : {<<2, 1>>, <<2, 2>>, <<2, 3>>, <<-1, 1>>},
      knee     : {<<3, 1>>, <<3, 2>>, <<3, 3>>},
      ankle    : {<<5, 1>>, <<5, 2>>, <<5, 3>>, <<5, 5>>, <<3, 2>>},
      nose     : {<<-1, 0>>, <<-1, 1>>, <<-1, 2>>} ]

\* The thresholds of the signature and those the driver passes.
PositionDefaults ==
    [min_plank_angle |-> 160, max_body_tilt |-> 30, face_down_threshold |-> 3]

PositionArgs ==
    {PositionDefaults, [PositionDefaults EXCEPT !.face_down_threshold = 2]}

DefaultPose ==
    [shoulder |-> <<0, 1>>, hip |-> <<2, 1>>, knee |-> <<3, 1>>,
     ankle |-> <<5, 1>>, nose |-> <<-1, 2>>]

InitPositionWith(poses, argsets) ==
    /\ pose \in poses
    /\ pargs \in argsets
    /\ pres = NoReturn

CheckPosition ==
    /\ pres = NoReturn
    /\ pres' = is_in_pushup_position(pose, pargs.min_plank_angle,
                                     pargs.max_body_tilt,
                                     pargs.face_down_threshold)
    /\ UNCHANGED <<pose, pargs, varsCounter, varsScorer, varsFilter, varsDriver>>

\* the caller moves on to another frame's pose
NextPose ==
    /\ pres # NoReturn
    /\ pose' \in Poses
    /\ pres' = NoReturn
    /\ UNCHANGED <<pargs, varsCounter, varsScorer, varsFilter, varsDriver>>

DefaultThresholds ==
    [down_angle |-> 90, angle_tolerance |-> 15, up_th |-> 140, parallel_th |-> 20]

DefaultFilter == {[freq |-> 120, min_cutoff |-> 1000, beta |-> 0, d_cutoff |-> 1000]}

(***************************************************************************)
(* OneEuro2D and the per-frame loop of main                                *)
(*                                                                         *)
(* A frame is given by what the pose model reports for it (one raw point   *)
(* for the keypoints, whether all needed keypoints reach min_conf) and by  *)
(* what the geometry functions return for its filtered keypoints: the five *)
(* points of the position check, the two elbow angles, the arm-to-back     *)
(* difference and the three scoring metrics.                               *)
(***************************************************************************)
OneEuro2D_init(cfg) == [fx |-> OneEuroFilter_init(cfg), fy |-> OneEuroFilter_init(cfg)]

OneEuro2D_call(self, pt, t) ==
    LET rx == OneEuroFilter_call(self.fx, pt[1], t)
        ry == OneEuroFilter_call(self.fy, pt[2], t) IN
    [ self |-> [fx |-> rx.self, fy |-> ry.self], out |-> <<rx.out, ry.out>> ]

NumKeypoints == 17

\* the defaults of --freq, --min_cutoff, --beta, --d_cutoff
DriverFilterConfig == [freq |-> 60, min_cutoff |-> 1000, beta |-> 100, d_cutoff |-> 1000]

DriverCounter ==
    PushupCounter_init([down_angle |-> 80, angle_tolerance |-> 30,
                        up_th |-> 120, parallel_th |-> 40], 1, 1)

\* the time between two frames, in milliseconds, and the frame rate it gives
FrameMillis == 40
FrameRate == 1000 \div FrameMillis

PlankPose ==
    [shoulder |-> <<0, 1>>, hip |-> <<2, 2>>, knee |-> <<3, 3>>,
     ankle |-> <<5, 5>>, nose |-> <<-1, 2>>]

BentPose == [PlankPose EXCEPT !.knee = <<3, 1>>]

DriverSample(vis, p, eL, eR, diff, sy, kp) ==
    [ all_visible |-> vis, kp |-> kp, pose |-> p, elbowL |-> eL, elbowR |-> eR,
      arm_back_diff |-> diff, shoulder_y |-> sy, hip_y |-> 50, line_dev |-> 10 ]

DriverSamples ==
    { DriverSample(FALSE, PlankPose, 80,  80,  10, 45, <<500, 520>>),
      DriverSample(TRUE,  BentPose,  80,  80,  10, 45, <<500, 520>>),
      DriverSample(TRUE,  PlankPose, 170, 170, 10, 58, <<520, 600>>),
      DriverSample(TRUE,  PlankPose, 130, 130, 10, 55, <<520, 600>>),
      DriverSample(TRUE,  PlankPose, 110, 120, 10, 52, <<520, 600>>),
      DriverSample(TRUE,  PlankPose, 80,  80,  40, 45, <<500, 520>>),
      DriverSample(TRUE,  PlankPose, 80,  80,  41, 45, <<500, 520>>),
      DriverSample(TRUE,  PlankPose, 100, 120, 0,  50, <<500, 520>>) }

\* filters[i]([x, y], t=t_now) for each keypoint
filter_keypoints(fs, kp, t) ==
    [i \in 1..NumKeypoints |-> OneEuro2D_call(fs[i], kp, t).self]

is_valid_position(len, s) ==
    len \/ is_in_pushup_position(s.pose, 160, 30, 2).valid

tracked_WhenVisible(len, s) == s.all_visible

\* the frame reaches the rep tracking: if all_visible, if is_valid_position
tracked(len, s) == s.all_visible /\ is_valid_position(len, s)

elbow_avg(s) == (s.elbowL + s.elbowR) \div 2

rep_starts_Deep(inrep, s) == ~inrep /\ elbow_avg(s) < 100

rep_starts(inrep, s) == ~inrep /\ elbow_avg(s) < 160

metrics_of(s) ==
    [elbowL |-> s.elbowL, elbowR |-> s.elbowR, shoulder_y |-> s.shoulder_y,
     hip_y |-> s.hip_y, line_dev |-> s.line_dev]

avg_fps(hist_) == IF hist_ = <<>> THEN 30 ELSE SeqSum(hist_) \div Len(hist_)

\* deque(maxlen=30).append
deque_append(q, v) == IF Len(q) < 30 THEN Append(q, v) ELSE Append(Tail(q), v)

\* What the rep tracking of one valid frame does: the scorer calls made, in
\* order, the counter's update, and the values left behind.
track_rep(c, fr, inrep, hist_, s) ==
    LET start  == rep_starts(inrep, s)
        in1    == inrep \/ start
        fr0    == IF start THEN RepScorer_reset(fr) ELSE fr
        fr1    == IF in1 THEN RepScorer_add_frame(fr0, metrics_of(s)) ELSE fr0
        u      == PushupCounter_update(c, elbow_avg(s), Some(s.arm_back_diff))
        fin    == u.rep_completed /\ in1
        fargs  == [target_down_s |-> 20, target_up_s |-> 10, fps |-> avg_fps(hist_)]
        r      == RepScorer_finalize(fr1, fargs) IN
    [ counter |-> u.self,
      rep_completed |-> u.rep_completed,
      frames |-> IF fin THEN r.frames ELSE fr1,
      in_rep |-> IF fin THEN FALSE ELSE in1,
      calls |-> (IF start THEN <<"reset">> ELSE <<>>)
                \o (IF in1 THEN <<"add_frame">> ELSE <<>>)
                \o (IF fin THEN <<"finalize">> ELSE <<>>),
      before_last |-> IF fin THEN fr1 ELSE IF in1 THEN fr0 ELSE fr,
      last_arg |-> IF fin THEN fargs ELSE IF in1 THEN metrics_of(s) ELSE <<>>,
      last_ret |-> IF fin THEN r.result ELSE NoReturn ]

InitDriverWith(modes) ==
    /\ filters = [i \in 1..NumKeypoints |-> OneEuro2D_init(DriverFilterConfig)]
    /\ in_rep = FALSE
    /\ fps_hist = <<>>
    /\ t_now = 0
    /\ lenient \in modes
    /\ dframe = [kind |-> "none"]

\* One iteration of the while loop.
DriverFrame ==
    /\ t_now < MaxDriverFrames * FrameMillis
    /\ \E s \in DriverSamples :
          LET t == t_now + FrameMillis
              k == track_rep(counter, frames, in_rep, fps_hist, s) IN
          /\ t_now' = t
          /\ filters' = filter_keypoints(filters, s.kp, t)
          /\ fps_hist' = deque_append(fps_hist, FrameRate)
          /\ IF tracked(lenient, s)
             THEN /\ counter' = k.counter
                  /\ old' = counter
                  /\ op' = "update"
                  /\ ret' = k.rep_completed
                  /\ frames' = k.frames
                  /\ in_rep' = k.in_rep
                  /\ IF k.calls = <<>>
                     THEN UNCHANGED <<sold, sop, sarg, sret>>
                     ELSE /\ sop' = k.calls[Len(k.calls)]
                          /\ sold' = k.before_last
                          /\ sarg' = k.last_arg
                          /\ sret' = k.last_ret
                  /\ dframe' = [kind |-> "frame", sample |-> s, tracked |-> TRUE,
                                rep_completed |-> k.rep_completed,
                                calls |-> k.calls]
             ELSE /\ UNCHANGED <<counter, old, op, ret, varsScorer, in_rep>>
                  /\ dframe' = [kind |-> "frame", sample |-> s, tracked |-> FALSE,
                                rep_completed |-> FALSE, calls |-> <<>>]
    /\ UNCHANGED <<hist, lenient, varsFilter, varsPosition>>

InitDriver == InitDriverWith({FALSE})

InitPosition == InitPositionWith({DefaultPose}, {PositionDefaults})

Init ==
    /\ InitCounter
    /\ InitScorer
    /\ InitFilterWith(DefaultFilter)
    /\ InitPosition
    /\ InitDriver

Next == Update \/ Reset

Spec == Init /\ [][Next]_vars

\* The scorer alone, beside a counter constructed with the defaults.
ScorerInit ==
    /\ counter = PushupCounter_init(
                     [down_angle |-> 90, angle_tolerance |-> 15, up_th |-> 140,
                      parallel_th |-> 20], 3, 3)
    /\ old = counter
    /\ op = "init"
    /\ ret = FALSE
    /\ hist = <<>>
    /\ InitScorer
    /\ InitFilterWith(DefaultFilter)
    /\ InitPosition
    /\ InitDriver

ScorerNext == ScorerReset \/ AddFrame \/ Finalize

ScorerSpec == ScorerInit /\ [][ScorerNext]_vars

\* One filter axis alone, beside a counter constructed with the defaults
\* or with a min_down_frames and an up_th of 0.
CounterConfigsTried ==
    { PushupCounter_init(DefaultThresholds, 3, 3),
      PushupCounter_init([DefaultThresholds EXCEPT !.up_th = 0], 0, 3) }

FilterInit ==
    /\ counter \in CounterConfigsTried
    /\ old = counter
    /\ op = "init"
    /\ ret = FALSE
    /\ hist = <<>>
    /\ InitScorer
    /\ InitFilterWith(FilterConfigs)
    /\ InitPosition
    /\ InitDriver

FilterNext == FilterCall \/ FilterReset

FilterSpec == FilterInit /\ [][FilterNext]_vars

\* is_in_pushup_position alone, applied to every pose and threshold set.
PositionInit ==
    /\ counter = PushupCounter_init(DefaultThresholds, 3, 3)
    /\ old = counter
    /\ op = "init"
    /\ ret = FALSE
    /\ hist = <<>>
    /\ InitScorer
    /\ InitFilterWith(DefaultFilter)
    /\ InitPositionWith(Poses, PositionArgs)
    /\ InitDriver

PositionNext == CheckPosition \/ NextPose

PositionSpec == PositionInit /\ [][PositionNext]_vars

\* The loop of main, strict or lenient, with the counter it configures.
DriverInit ==
    /\ counter = DriverCounter
    /\ old = counter
    /\ op = "init"
    /\ ret = FALSE
    /\ hist = <<>>
    /\ InitScorer
    /\ InitFilterWith(DefaultFilter)
    /\ InitPosition
    /\ InitDriverWith(BOOLEAN)

DriverNext == DriverFrame

DriverSpec == DriverInit /\ [][DriverNext]_vars

(***************************************************************************)
(* Properties of PushupCounter, checked under Spec.                        *)
(***************************************************************************)
\* A frame of the history is down-qualifying when the down-position test
\* held, up-qualifying when it did not and the elbow angle was > up_th, and
\* a transition-zone frame when neither test held.
IsDownFrame(h) == h.down
IsUpFrame(h) == ~h.down /\ h.above
IsTransitionFrame(h) == ~h.down /\ ~h.above

\* hist[1..n] is i down-qualifying frames followed by up-qualifying frames
DownsThenUps(n, i) ==
    \A j \in 1..n : IF j <= i THEN IsDownFrame(hist[j]) ELSE IsUpFrame(hist[j])

\* C1: from a fresh or freshly reset counter, min_down_frames down-qualifying
\* frames followed by min_up_frames up-qualifying frames make update return
\* True exactly once, on the last of those frames and on no earlier one, and
\* leave reps = 1 and state = "up".
C1_OneRepPerCycle ==
    LET n == counter.min_down_frames + counter.min_up_frames IN
    (Len(hist) <= n /\ DownsThenUps(Len(hist), counter.min_down_frames))
    => /\ \A j \in 1..Len(hist) : hist[j].ret = (j = n)
       /\ Len(hist) = n => (counter.reps = 1 /\ counter.state = "up" /\ ret)

C1_Witness ==
    /\ counter.min_down_frames = 3 /\ counter.min_up_frames = 2
    /\ Len(hist) = 5 /\ DownsThenUps(5, 3)
    /\ op = "update" /\ ret /\ counter.reps = 1

\* C2: update returns True iff the call changes state from "down" to "up",
\* and exactly then reps grows by exactly 1; every other call (one that
\* changes state from "up" to "down" too) returns False and keeps reps.
C2_RepIffDownToUp ==
    op = "update"
    => /\ ret <=> (old.state = "down" /\ counter.state = "up")
       /\ counter.reps = old.reps + (IF ret THEN 1 ELSE 0)

C2_Witness ==
    /\ op = "update" /\ ret /\ counter.reps = 2
    /\ \E j \in 1..Len(hist) : IsDownFrame(hist[j]) /\ ~hist[j].ret

\* C3: from a fresh counter with min_down_frames >= 2, min_down_frames - 1
\* down-qualifying frames and then one transition-zone frame leave state
\* "up" (Down is not registered) and reps 0.
C3_NoDownBeforeMinFrames ==
    LET n == counter.min_down_frames IN
    ( /\ n >= 2 /\ Len(hist) = n
      /\ \A j \in 1..(n - 1) : IsDownFrame(hist[j])
      /\ IsTransitionFrame(hist[n]) )
    => (counter.state = "up" /\ counter.reps = 0)

C3_Witness ==
    /\ counter.min_down_frames = 3 /\ Len(hist) = 3 /\ op = "update"
    /\ IsDownFrame(hist[1]) /\ IsDownFrame(hist[2]) /\ IsTransitionFrame(hist[3])
    /\ counter.down_frames = 1

\* the configuration the instance was constructed with
ConfigOf(self) ==
    [ down_angle |-> self.down_angle, angle_tolerance |-> self.angle_tolerance,
      up_th |-> self.up_th, parallel_th |-> self.parallel_th ]

\* C4: after any sequence of update calls, reset() leaves state "up",
\* down_frames, up_frames and reps 0 and the thresholds as they were (the
\* freshly constructed instance), and a second reset() changes nothing.
C4_ResetToInitial ==
    op = "reset"
    => /\ counter.state = "up" /\ counter.reps = 0
       /\ counter.down_frames = 0 /\ counter.up_frames = 0
       /\ counter = PushupCounter_init(ConfigOf(old), old.min_down_frames,
                                        old.min_up_frames)
       /\ PushupCounter_reset(counter) = counter

C4_Witness ==
    /\ op = "reset" /\ old.state = "down" /\ old.reps = 1 /\ old.up_frames = 1
    /\ counter.state = "up"

\* C5 as stated: reset() leaves reps as it was.
C5_ResetKeepsReps == op = "reset" => counter.reps = old.reps

\* C5, amended: reset() reinitializes the cumulative count too: whatever
\* reps was before, it is 0 after reset(), so it is kept only when it was 0.
C5_ResetClearsReps ==
    op = "reset" => (counter.reps = 0 /\ (counter.reps = old.reps <=> old.reps = 0))

C5_Witness == op = "reset" /\ old.reps = 2 /\ counter.reps = 0

\* alignment differences tried against parallel_th
ProbeDiffs == {0, 20, 21, 180}

\* C6: in every reachable state and for every elbow angle, update(elbow, None)
\* returns the same and leaves the same instance as update(elbow, d) for
\* every d <= parallel_th (inclusive); with d > parallel_th a frame whose
\* elbow angle is within angle_tolerance of down_angle is not counted as a
\* down frame: down_frames does not grow.
C6_LenientIsStrictParallel ==
    \A e \in ElbowAngles, d \in ProbeDiffs :
        /\ d <= counter.parallel_th
           => PushupCounter_update(counter, e, Some(d))
              = PushupCounter_update(counter, e, None)
        /\ (d > counter.parallel_th /\ in_down_angle_range(counter, e))
           => PushupCounter_update(counter, e, Some(d)).self.down_frames
              <= counter.down_frames

C6_Witness ==
    /\ op = "update" /\ counter.state = "up" /\ counter.down_frames = 2
    /\ counter.min_down_frames = 3
    /\ \E e \in ElbowAngles :
          /\ PushupCounter_update(counter, e, Some(counter.parallel_th)).self.state = "down"
          /\ PushupCounter_update(counter, e, None).self.state = "down"
          /\ PushupCounter_update(counter, e, Some(counter.parallel_th + 1)).self.state = "up"

\* the frame the last update call was given
LastFrame == hist[Len(hist)]

\* C14: a down-qualifying frame is handled only as a down frame, also when
\* its elbow angle is > up_th and also when state is "down": down_frames
\* grows by 1, up_frames becomes 0, update returns False, reps is kept.
C14_DownTestFirst ==
    (op = "update" /\ IsDownFrame(LastFrame))
    => /\ counter.down_frames = old.down_frames + 1
       /\ counter.up_frames = 0
       /\ ~ret
       /\ counter.reps = old.reps

C14_Witness ==
    /\ op = "update" /\ LastFrame.down /\ LastFrame.above
    /\ old.state = "down" /\ old.up_frames + 1 >= old.min_up_frames
    /\ counter.state = "down" /\ counter.down_frames = old.down_frames + 1

\* C15: a transition-zone frame sets down_frames and up_frames to
\* max(0, previous - 1), keeps state and reps and returns False; a counter
\* that was >= 2 is not 0 after it.
C15_TransitionDecays ==
    (op = "update" /\ IsTransitionFrame(LastFrame))
    => /\ counter.down_frames = Max(0, old.down_frames - 1)
       /\ counter.up_frames = Max(0, old.up_frames - 1)
       /\ counter.state = old.state /\ counter.reps = old.reps
       /\ ~ret
       /\ old.down_frames >= 2 => counter.down_frames > 0
       /\ old.up_frames >= 2 => counter.up_frames > 0

C15_Witness ==
    /\ op = "update" /\ IsTransitionFrame(LastFrame)
    /\ old.down_frames = 3 /\ counter.down_frames = 2 /\ counter.state = "down"

\* the last n update calls were all given frames of the kind Is
LastAll(n, Is(_)) ==
    /\ Len(hist) >= n
    /\ \A j \in (Len(hist) - n + 1)..Len(hist) : Is(hist[j])

\* C16 as stated: state goes "up" -> "down" only when the last
\* min_down_frames inputs were all down-qualifying, and "down" -> "up" only
\* when the last min_up_frames inputs were all up-qualifying.
C16_ConsecutiveFrames ==
    op = "update"
    => /\ (old.state = "up" /\ counter.state = "down")
          => LastAll(counter.min_down_frames, IsDownFrame)
       /\ (old.state = "down" /\ counter.state = "up")
          => LastAll(counter.min_up_frames, IsUpFrame)

\* the frames of kind Is among hist[i..Len(hist)]
CountFrom(i, Is(_)) == Cardinality({j \in i..Len(hist) : Is(hist[j])})

\* the frames of kind Is fed after the most recent frame of kind Other
SinceLast(Is(_), Other(_)) ==
    LET others == {j \in 1..Len(hist) : Other(hist[j])}
        from == IF others = {} THEN 1
                ELSE (CHOOSE j \in others : \A k \in others : k <= j) + 1 IN
    CountFrom(from, Is)

\* C16, amended: state goes "up" -> "down" only on a down-qualifying frame
\* with at least min_down_frames down-qualifying frames fed since the most
\* recent up-qualifying frame (or reset), and "down" -> "up" only on an
\* up-qualifying frame with at least min_up_frames up-qualifying frames fed
\* since the most recent down-qualifying frame; transition-zone frames may
\* lie among them.
C16_EnoughFramesOfPhase ==
    op = "update"
    => /\ (old.state = "up" /\ counter.state = "down")
          => /\ IsDownFrame(LastFrame)
             /\ SinceLast(IsDownFrame, IsUpFrame) >= counter.min_down_frames
       /\ (old.state = "down" /\ counter.state = "up")
          => /\ IsUpFrame(LastFrame)
             /\ SinceLast(IsUpFrame, IsDownFrame) >= counter.min_up_frames

C16_Witness ==
    /\ op = "update" /\ old.state = "up" /\ counter.state = "down"
    /\ counter.min_down_frames = 3 /\ Len(hist) = 5
    /\ IsTransitionFrame(hist[3]) /\ ~LastAll(3, IsDownFrame)

\* C19: in every reachable state both frame counters are >= 0 and not both
\* positive, state "up" has down_frames < min_down_frames, and state "down"
\* has up_frames < min_up_frames.
C19_CounterInvariant ==
    /\ counter.down_frames >= 0 /\ counter.up_frames >= 0
    /\ ~(counter.down_frames > 0 /\ counter.up_frames > 0)
    /\ counter.state = "up" => counter.down_frames < counter.min_down_frames
    /\ counter.state = "down" => counter.up_frames < counter.min_up_frames
    /\ counter.state \in {"up", "down"}

C19_Witness ==
    /\ op = "update" /\ counter.state = "down" /\ counter.min_up_frames = 3
    /\ counter.up_frames = 2 /\ counter.down_frames = 0

(***************************************************************************)
(* Properties of OneEuroFilter, checked under FilterSpec.                  *)
(***************************************************************************)
Uninitialized(self) ==
    self.x_prev = None /\ self.dx_prev = None /\ self.t_prev = None

\* C11: the first call after construction and the first call after any
\* reset() returns the raw input unchanged and stores previous value = the
\* input, previous derivative = 0 and previous timestamp = the call's
\* timestamp; reset() returns all three stored fields to uninitialized.
\* (An axis is uninitialized exactly after construction or a reset, so the
\* call entered with no timestamp is the first one after either.)
C11_FirstCallPassesRaw ==
    /\ fop \in {"init", "reset"} => Uninitialized(filt) /\ fret = NoReturn
    /\ fop = "call" => filt.t_prev # None
    /\ (fop = "call" /\ fold.t_prev = None) =>
          /\ fret = [value |-> farg.x]
          /\ filt.x_prev = Some(farg.x)
          /\ filt.dx_prev = Some(0)
          /\ filt.t_prev = Some(farg.t)

C11_Witness ==
    /\ fop = "call" /\ Uninitialized(fold) /\ ncalls >= 3
    /\ farg.x = 600 /\ farg.t > 0
    /\ fret = [value |-> 600] /\ filt.x_prev = Some(600)

Rejected(instance) == "error" \in DOMAIN instance

InvalidFilterConfig(self) ==
    self.freq <= 0 \/ self.min_cutoff <= 0 \/ self.beta <= 0 \/ self.d_cutoff <= 0

InvalidCounterConfig(self) ==
    \/ self.down_angle <= 0 \/ self.angle_tolerance <= 0
    \/ self.up_th <= 0 \/ self.parallel_th <= 0
    \/ self.min_down_frames <= 0 \/ self.min_up_frames <= 0

\* C12: constructing a OneEuroFilter with a non-positive freq, min_cutoff,
\* beta or d_cutoff, or a PushupCounter with a non-positive threshold or
\* minimum frame count, produces an error outcome instead of a usable
\* instance.
C12_InvalidConfigRejected ==
    /\ Rejected(filt) \/ ~InvalidFilterConfig(filt)
    /\ Rejected(counter) \/ ~InvalidCounterConfig(counter)


(***************************************************************************)
(* Properties of is_in_pushup_position, checked under PositionSpec.        *)
(***************************************************************************)
LegsAreBent == knee_angle(pose) < 1000 * pargs.min_plank_angle

TorsoIsTilted == torso_angle_from_horizontal(pose) > 1000 * pargs.max_body_tilt

FaceIsUp ==
    /\ body_height(pose) > 0
    /\ 10 * (pose.nose[2] - pose.shoulder[2])
          < pargs.face_down_threshold * body_height(pose)

InvalidFrame(s) ==
    \/ ~s.all_visible
    \/ ~lenient /\ ~is_in_pushup_position(s.pose, 160, 30, 2).valid

\* C17: a frame where not all needed joints reach the confidence threshold,
\* or where is_in_pushup_position reports invalid in strict mode, leaves the
\* counter's state, down_frames, up_frames and reps, the scorer buffer and
\* in_rep unchanged, while the filter of every keypoint is still updated
\* with the frame's point and timestamp.
C17_InvalidFrameTouchesNothing ==
    [][ (t_now' # t_now /\ InvalidFrame(dframe'.sample)) =>
            /\ counter'.state = counter.state
            /\ counter'.down_frames = counter.down_frames
            /\ counter'.up_frames = counter.up_frames
            /\ counter'.reps = counter.reps
            /\ frames' = frames
            /\ in_rep' = in_rep
            /\ \A i \in 1..NumKeypoints :
                  /\ filters'[i] = OneEuro2D_call(filters[i], dframe'.sample.kp, t_now').self
                  /\ filters'[i] # filters[i]
                  /\ filters'[i].fx.t_prev = Some(t_now')
                  /\ filters'[i].fy.t_prev = Some(t_now') ]_vars

\* a visible frame with bent legs, in strict mode, right after a down frame
C17_Witness ==
    /\ dframe.kind = "frame" /\ ~lenient
    /\ dframe.sample.all_visible /\ dframe.sample.pose = BentPose
    /\ elbow_avg(dframe.sample) = 80
    /\ counter.state = "down" /\ counter.reps = 0
    /\ in_rep /\ Len(frames) = 1
    /\ t_now = 2 * FrameMillis
    /\ filters[NumKeypoints].fy.t_prev = Some(t_now)

Finalizes(calls) == Cardinality({i \in 1..Len(calls) : calls[i] = "finalize"})

\* C18: with the driver's counter and rep-start threshold, counter.state =
\* 'down' implies in_rep, and in_rep at the end of a frame implies a scorer
\* buffer of at least one frame; a frame in which counter.update returns
\* True makes exactly one finalize, on a non-empty buffer, and the 'No
\* frames captured' result is never produced.
C18_DriverInvariant ==
    /\ counter.state = "down" => in_rep
    /\ in_rep => Len(frames) >= 1
    /\ (dframe.kind = "frame" /\ dframe.rep_completed) =>
          /\ op = "update" /\ ret
          /\ Finalizes(dframe.calls) = 1
          /\ sop = "finalize" /\ sold # <<>>
          /\ ~in_rep
    /\ sret # EmptyResult

C18_Witness ==
    /\ dframe.kind = "frame" /\ dframe.rep_completed
    /\ counter.reps = 1 /\ counter.state = "up"
    /\ sop = "finalize" /\ Len(sold) = 3 /\ sret.score > 0
    /\ ~in_rep

(***************************************************************************)
(* Properties of RepScorer, checked under ScorerSpec.                      *)
(***************************************************************************)
\* C7: finalize on an empty buffer raises nothing and returns score 0.0, an
\* empty breakdown and the note that no frames were captured, and leaves
\* the buffer empty.
C7_EmptyBufferResult ==
    (sop = "finalize" /\ sold = <<>>)
    => /\ "error" \notin DOMAIN sret
       /\ DOMAIN sret = {"score", "breakdown", "notes"}
       /\ sret.score = 0
       /\ DOMAIN sret.breakdown = {}
       /\ sret.notes = <<"No frames captured">>
       /\ frames = <<>>

C7_Witness == sop = "finalize" /\ sold = <<>> /\ sret = EmptyResult

\* C8: for every non-empty buffer and positive fps and targets, each of the
\* six sub-scores finalize returns is in [0, 100], and so is the final
\* weighted score.
C8_ScoresInRange ==
    (sop = "finalize" /\ sold # <<>>)
    => /\ \A k \in ScoreKeys :
             sret.breakdown[k] >= 0 /\ sret.breakdown[k] <= Points(100)
       /\ sret.score >= 0 /\ sret.score <= Points(100)

C8_Witness ==
    /\ sop = "finalize" /\ Len(sold) = 3
    /\ \A k \in ScoreKeys : sret.breakdown[k] > 0 /\ sret.breakdown[k] < Points(100)
    /\ sret.score > 0 /\ sret.score < Points(100)

\* the least elbow angle of the buffer
MinElbow(fr) == Min(SeqMin(Series(fr, "elbowL")), SeqMin(Series(fr, "elbowR")))

\* C9: the ROM bottom-score is 0 for m >= 110, 100 for m <= 70 and
\* 100 * (110 - m) / 40 in between, m the least elbow angle of the buffer.
C9_RomBottomLinear ==
    (sop = "finalize" /\ frames # <<>>)
    => LET m == MinElbow(frames) IN
       rom_bottom_score(frames)
       = (IF m >= 110 THEN 0
          ELSE IF m <= 70 THEN Points(100)
          ELSE (Points(100) * (110 - m)) \div 40)

\* C10: reset empties the buffer, add_frame appends exactly its record at
\* the end, finalize leaves the buffer as it is, and a finalize that
\* follows a finalize with the same arguments returns the same result.
C10_BufferFrame ==
    [][ /\ sop' = "reset" => frames' = <<>>
        /\ sop' = "add_frame" => frames' = Append(frames, sarg')
        /\ sop' = "finalize" => frames' = frames
        /\ (sop = "finalize" /\ sop' = "finalize" /\ sarg' = sarg) => sret' = sret
      ]_vars

C10_Witness ==
    /\ sop = "finalize" /\ sold = frames /\ Len(frames) = 3
    /\ frames[1] # frames[2] /\ frames[2] # frames[3] /\ frames[1] # frames[3]
    /\ sret.score > 0

====
